---------------------------- MODULE Spec2Model ----------------------------
(***************************************************************************)
(* Model of technical_como.py: the upload pipeline (column normalizer,     *)
(* schema reconciliation, duplicate pre-check, bulk append, cache clear)   *)
(* and the memoized read path (load_data, view_table_data).                *)
(*                                                                         *)
(* A DataFrame is a record [cols, rows]: cols is the sequence of column    *)
(* labels, rows a sequence of rows, each row a sequence of cells aligned   *)
(* with cols.  A cell is a record [t, v]:                                  *)
(*   t = "null"    NaN / None / SQL NULL                       (v = 0)     *)
(*   t = "num"     a number; v counts halves (v = 3 is 1.5)                *)
(*   t = "numstr"  a string holding a numeric literal; v counts halves     *)
(*   t = "str"     a string that is no numeric literal; v names it         *)
(*   t = "gen"     an auto-generated identifier 'generated_<ts>_<i>';      *)
(*                 v = i (the timestamp text is not represented)           *)
(***************************************************************************)
EXTENDS Integers, Sequences, FiniteSets, TLC

VARIABLES
    db,        \* table name -> sequence of stored rows (the database)
    dbVer,     \* number of bulk appends committed so far
    doneVer,   \* dbVer as of the last upload that ran to its end
    cache,     \* st.cache_data: cache key -> memoized entry
    pc,        \* session -> position in the running handler
    ss,        \* session -> the handler's local variables and UI output
    nUploads,  \* upload clicks so far
    nReads,    \* cached reads started so far
    frames     \* column normalizer run on its own: the frames it produced

vars == <<db, dbVer, doneVer, cache, pc, ss, nUploads, nReads, frames>>

-----------------------------------------------------------------------------
(* Bounds of the model *)

MaxUploads == 2
MaxReads == 2
MaxRows == 2
MaxHeaders == 2

-----------------------------------------------------------------------------
(* Cells *)

Null == [t |-> "null", v |-> 0]
Num(h) == [t |-> "num", v |-> h]
NumStr(h) == [t |-> "numstr", v |-> h]
Str(i) == [t |-> "str", v |-> i]
Gen(i) == [t |-> "gen", v |-> i]

IsNull(c) == c.t = "null"

Range(s) == {s[i] : i \in DOMAIN s}

\* sorted(list(set(...))) over integers
RECURSIVE SortedSeq(_)
SortedSeq(S) ==
    IF S = {} THEN <<>>
    ELSE LET m == CHOOSE x \in S : \A y \in S : x <= y
         IN  <<m>> \o SortedSeq(S \ {m})

\* [x for x in s if P(x)]
RECURSIVE SelectIdx(_, _, _)
SelectIdx(s, keep, i) ==
    IF i > Len(s) THEN <<>>
    ELSE (IF i \in keep THEN <<s[i]>> ELSE <<>>) \o SelectIdx(s, keep, i + 1)

-----------------------------------------------------------------------------
(* Column normalizer: map_and_clean_columns *)

Chars(s) == [i \in 1..Len(s) |-> SubSeq(s, i, i)]

RECURSIVE Join(_)
Join(cs) == IF cs = <<>> THEN "" ELSE Head(cs) \o Join(Tail(cs))

UpperAlpha == Chars("ABCDEFGHIJKLMNOPQRSTUVWXYZ")
LowerAlpha == Chars("abcdefghijklmnopqrstuvwxyz")

\* str.lower(), one character
LowerChar(c) ==
    IF \E i \in DOMAIN UpperAlpha : UpperAlpha[i] = c
    THEN LowerAlpha[CHOOSE i \in DOMAIN UpperAlpha : UpperAlpha[i] = c]
    ELSE c

\* str.strip(): leading and trailing blanks removed
RECURSIVE StripLeft(_)
StripLeft(cs) ==
    IF cs # <<>> /\ Head(cs) = " " THEN StripLeft(Tail(cs)) ELSE cs

RECURSIVE StripRight(_)
StripRight(cs) ==
    IF cs # <<>> /\ cs[Len(cs)] = " "
    THEN StripRight(SubSeq(cs, 1, Len(cs) - 1))
    ELSE cs

Strip(cs) == StripRight(StripLeft(cs))

\* str.replace(old, new) for a one-character old; new is "" or one character
RECURSIVE Replace(_, _, _)
Replace(cs, old, new) ==
    IF cs = <<>> THEN <<>>
    ELSE (IF Head(cs) = old
          THEN (IF new = "" THEN <<>> ELSE <<new>>)
          ELSE <<Head(cs)>>) \o Replace(Tail(cs), old, new)

\* str(col).lower().strip().replace(' ', '_').replace('(', '').replace(')', '')
NormalizeCol(col) ==
    Join(Replace(Replace(Replace(Strip([i \in 1..Len(col) |->
             LowerChar(Chars(col)[i])]), " ", "_"), "(", ""), ")", ""))

\* every column label the model's files and tables use
Labels ==
    {"Identifier", "identifier", "Equipment_Name", "Component",
     "Measurement Point", "Alarm_Standard", "Date", "Value", "value",
     "Remarks", "Unacceptable Alarm", "Equipment_Tag_ID", " equipment name ",
     "(Status)", "Value (mm)", "measurement_point",
     "equipment_tag_id", "equipment_name", "technology", "component", "key",
     "alarm_standard", "date", "point_measurement", "unit", "status",
     "excellent", "acceptable", "alarm_yellow_warning", "unacceptable",
     "requires_evaluation", "note", "standard", "point"}

\* NormalizeCol, computed once per label
Normalized == [h \in Labels |-> NormalizeCol(h)]

\* The measurement-point entry written in the wrong direction.
ColumnMappingReversed ==
    [identifier |-> "identifier",
     equipment_tag_id |-> "equipment_tag_id",
     equipment_name |-> "equipment_name",
     technology |-> "technology",
     component |-> "component",
     key |-> "key",
     alarm_standard |-> "alarm_standard",
     date |-> "date",
     point_measurement |-> "measurement_point",
     value |-> "value",
     unit |-> "unit",
     status |-> "status",
     excellent |-> "excellent",
     acceptable |-> "acceptable",
     alarm_yellow_warning |-> "alarm_yellow_warning",
     unacceptable_alarm |-> "unacceptable",
     note |-> "note"]

ColumnMapping ==
    [identifier |-> "identifier",
     equipment_tag_id |-> "equipment_tag_id",
     equipment_name |-> "equipment_name",
     technology |-> "technology",
     component |-> "component",
     key |-> "key",
     alarm_standard |-> "alarm_standard",
     date |-> "date",
     measurement_point |-> "point_measurement",
     value |-> "value",
     unit |-> "unit",
     status |-> "status",
     excellent |-> "excellent",
     acceptable |-> "acceptable",
     alarm_yellow_warning |-> "alarm_yellow_warning",
     unacceptable_alarm |-> "unacceptable",
     note |-> "note"]

\* rename_dict: column label -> database name, for the labels that map
RenameDict(cols) ==
    [c \in {x \in Range(cols) : Normalized[x] \in DOMAIN ColumnMapping} |->
        ColumnMapping[Normalized[c]]]

\* ignored_columns, in file order
IgnoredColumns(cols) ==
    SelectIdx(cols, {i \in DOMAIN cols :
                        Normalized[cols[i]] \notin DOMAIN ColumnMapping}, 1)

\* df[name] = values: every column so labelled is overwritten, or a new last
\* column is added
SetColumn(df, name, values) ==
    IF name \in Range(df.cols)
    THEN [df EXCEPT !.rows = [r \in DOMAIN df.rows |->
               [j \in DOMAIN df.cols |->
                   IF df.cols[j] = name THEN values[r] ELSE df.rows[r][j]]]]
    ELSE [cols |-> Append(df.cols, name),
          rows |-> [r \in DOMAIN df.rows |-> Append(df.rows[r], values[r])]]

\* df.rename(columns=rename_dict)
RenameColumns(df, rd) ==
    [df EXCEPT !.cols = [j \in DOMAIN df.cols |->
        IF df.cols[j] \in DOMAIN rd THEN rd[df.cols[j]] ELSE df.cols[j]]]

\* 'identifier' not in rename_dict.values()
NeedsIdentifier(cols) ==
    ~ \E c \in DOMAIN RenameDict(cols) : RenameDict(cols)[c] = "identifier"

\* The returned frame; i counts from 0 in the generated identifiers.
MapAndCleanColumns(df) ==
    LET rd == RenameDict(df.cols)
        withId == IF NeedsIdentifier(df.cols)
                  THEN SetColumn(df, "identifier",
                                 [r \in DOMAIN df.rows |-> Gen(r - 1)])
                  ELSE df
    IN  RenameColumns(withId, rd)

-----------------------------------------------------------------------------
(* The database: tables, their columns, their uniqueness keys.  The schema *)
(* is read at run time (SELECT * ... LIMIT 0); the columns below are the   *)
(* ones the source names, the others of the real tables are left out.      *)

TableOptions == {"data", "alarm_standards", "equipment", "alarm", "component"}

DbCols(t) ==
    CASE t = "data" ->
            <<"identifier", "equipment_name", "component", "point_measurement",
              "alarm_standard", "date", "value">>
      [] t = "alarm_standards" ->
            <<"standard", "excellent", "acceptable", "requires_evaluation",
              "unacceptable">>
      [] t = "component" -> <<"point">>
      [] t = "equipment" -> <<"equipment_tag_id", "equipment_name">>
      [] OTHER -> <<"equipment_tag_id", "alarm_standard", "status">>

\* unique_key_map.get(target_table); "" stands for None
UniqueKey(t) ==
    CASE t = "data" -> "identifier"
      [] t = "alarm_standards" -> "standard"
      [] t = "component" -> "point"
      [] OTHER -> ""

\* positions of the columns labelled name
ColIdx(cols, name) == {j \in DOMAIN cols : cols[j] = name}

\* the position of a column of a table
DbColPos(t, name) == CHOOSE j \in DOMAIN DbCols(t) : DbCols(t)[j] = name

\* the key column of a stored table, as the set of its cells
DbKeys(rows, t) == {rows[i][DbColPos(t, UniqueKey(t))] : i \in DOMAIN rows}

-----------------------------------------------------------------------------
(* DataFrame operations used by the upload handler *)

EmptyFrame == [cols |-> <<>>, rows |-> <<>>]

\* df.dropna(subset=[name]): a row goes when any column so labelled is null
DropNa(df, name) ==
    [df EXCEPT !.rows = SelectIdx(df.rows,
        {r \in DOMAIN df.rows :
            \A j \in ColIdx(df.cols, name) : ~IsNull(df.rows[r][j])}, 1)]

\* positions selected by df[db_cols]: for each requested label in turn, every
\* column carrying it
RECURSIVE PickCols(_, _, _)
PickCols(cols, want, k) ==
    IF k > Len(want) THEN <<>>
    ELSE SelectIdx([j \in DOMAIN cols |-> j], ColIdx(cols, want[k]), 1)
            \o PickCols(cols, want, k + 1)

\* upload_df[db_cols]
Project(df, want) ==
    LET pick == PickCols(df.cols, want, 1)
    IN  [cols |-> [j \in DOMAIN pick |-> df.cols[pick[j]]],
         rows |-> [r \in DOMAIN df.rows |->
                      [j \in DOMAIN pick |-> df.rows[r][pick[j]]]]]

\* set(db_cols) - set(upload_cols)
MissingCols(df, t) == Range(DbCols(t)) \ Range(df.cols)

\* pd.to_numeric(..., errors='coerce'), one cell
ToNumeric(c) ==
    IF c.t \in {"num", "numstr"} THEN Num(c.v) ELSE Null

\* final_upload_df[unique_key] = pd.to_numeric(final_upload_df[unique_key], ...)
\* for a key column that occurs once
CoerceKey(df, key) ==
    [df EXCEPT !.rows = [r \in DOMAIN df.rows |->
        [j \in DOMAIN df.cols |->
            IF df.cols[j] = key THEN ToNumeric(df.rows[r][j])
            ELSE df.rows[r][j]]]]

\* .astype(int), one cell: the fraction is cut off
AsInt(c) == c.v \div 2

\* final_upload_df[unique_key].astype(int).tolist()
UploadIds(df, key) ==
    LET j == CHOOSE x \in ColIdx(df.cols, key) : TRUE
    IN  [r \in DOMAIN df.rows |-> AsInt(df.rows[r][j])]

\* the stored value of an integer id
IdCell(n) == Num(2 * n)

\* SELECT "key" FROM "table" WHERE "key" IN :ids, then set(...)
ExistingIds(rows, t, ids) ==
    {n \in Range(ids) : IdCell(n) \in DbKeys(rows, t)}

\* [id for id in upload_ids if id in existing_ids]
DuplicateIds(ids, existing) ==
    SelectIdx(ids, {i \in DOMAIN ids : ids[i] \in existing}, 1)

\* the rows to_sql writes, aligned with the table's columns; when a label
\* occurs twice the later column's cell is the one written
SqlRows(df, t) ==
    [r \in DOMAIN df.rows |->
        [k \in DOMAIN DbCols(t) |->
            LET js == ColIdx(df.cols, DbCols(t)[k])
            IN  df.rows[r][CHOOSE j \in js : \A i \in js : i <= j]]]

HasDupCols(df) ==
    \E i, j \in DOMAIN df.cols : i # j /\ df.cols[i] = df.cols[j]

-----------------------------------------------------------------------------
(* Uploaded files *)

\* the cell a test file holds under a header
CellFor(h, spec) ==
    LET n == Normalized[h]
    IN  CASE n \in {"identifier", "standard", "point"} -> spec.k
          [] n = "value" -> spec.val
          [] n = "date" -> spec.date
          [] n = "alarm_standard" -> Num(4)
          [] OTHER -> Str(0)

\* the frame pd.read_csv / pd.read_excel returns for a file
MakeFrame(hs, specs) ==
    [cols |-> hs,
     rows |-> [r \in DOMAIN specs |->
                  [j \in DOMAIN hs |-> CellFor(hs[j], specs[r])]]]

NoFile == [kind |-> "none", df |-> EmptyFrame]

\* a file whose name ends neither in .csv nor in .xlsx
OtherFile == [kind |-> "other", df |-> EmptyFrame]

\* a file the parser raises on
CorruptFile == [kind |-> "corrupt", df |-> EmptyFrame]

SeqsUpTo(S, n) == UNION {[1..k -> S] : k \in 0..n}

HData ==
    <<"Identifier", "Equipment_Name", "Component", "Measurement Point",
      "Alarm_Standard", "Date", "Value">>

\* headers that do not match the data table exactly
VariantHeaders ==
    { Tail(HData),                          \* no identifier column
      Append(HData, "Remarks"),             \* a column the table lacks
      SubSeq(HData, 1, 6),                  \* no value column
      Append(HData, "value"),               \* two headers that map to value
      <<"identifier">> \o HData,            \* two headers that map to identifier
      <<"standard", "excellent", "acceptable", "requires_evaluation",
        "Unacceptable Alarm">>,
      <<"point">>,
      <<"Equipment_Tag_ID", " equipment name ">>,
      <<"Equipment_Tag_ID", "Alarm_Standard", "(Status)">> }

KeyCells == {Null, Num(2), Num(3), Str(1)}

RowSpecs ==
    {[k |-> c, val |-> Num(10), date |-> Num(2)] : c \in KeyCells}
      \cup {[k |-> Num(4), val |-> Null, date |-> Num(4)],
            [k |-> Num(6), val |-> Num(10), date |-> Null]}

CsvFile(hs, specs) == [kind |-> "csv", df |-> MakeFrame(hs, specs)]

Files ==
    {NoFile, OtherFile, CorruptFile}
      \cup {CsvFile(HData, specs) : specs \in SeqsUpTo(RowSpecs, MaxRows)}
      \cup {CsvFile(hs, specs) : hs \in VariantHeaders,
                                  specs \in SeqsUpTo(RowSpecs, 1)}

-----------------------------------------------------------------------------
(* Sessions *)

Sessions == {1, 2}

NoEntry == [has |-> FALSE, rows |-> <<>>, ok |-> FALSE, ver |-> 0]

CacheKeys == {"load_data"} \cup TableOptions

\* what the dashboard page has rendered: nothing yet
NoDash ==
    [run |-> FALSE, stopped |-> FALSE,
     equipment_options |-> <<>>, equipment_choice |-> Null,
     component_options |-> <<>>, component_choice |-> Null,
     point_options |-> <<>>, point_choices |-> {}, filtered_df |-> <<>>]

IdleRec ==
    [op |-> "none", table |-> "", df |-> EmptyFrame, ids |-> <<>>,
     out |-> "none", missing |-> {}, dups |-> <<>>, shown |-> {},
     uploadCols |-> {}, rowsIn |-> 0, recon |-> EmptyFrame,
     keysIn |-> {}, keysDb |-> {}, dropped |-> 0,
     preVer |-> 0, appVer |-> 0, wrote |-> FALSE,
     key |-> "", res |-> <<>>, resOk |-> FALSE, resVer |-> 0,
     cleared |-> FALSE, retVer |-> 0, dash |-> NoDash]

\* a message shown to the user, with the count it carries (0 for none)
Msg(m, n) == [msg |-> m, n |-> n]

\* st.stop() or the end of the handler: the run is over, its output stays
Stop(s, rec) ==
    /\ ss' = [ss EXCEPT ![s] = rec]
    /\ pc' = [pc EXCEPT ![s] = "done"]

\* the except-branch of the upload handler
Unexpected(s) ==
    Stop(s, [ss[s] EXCEPT !.out = "error",
                          !.shown = @ \cup {Msg("unexpected_error", 0)}])

-----------------------------------------------------------------------------
(* Upload New Data: the button handler, split where it talks to the       *)
(* database                                                                *)

\* Steps 1-3: read the file, map the columns, drop blank identifiers
UploadStart(s, t, f) ==
    /\ pc[s] = "idle"
    /\ nUploads < MaxUploads
    /\ nUploads' = nUploads + 1
    /\ UNCHANGED <<db, dbVer, doneVer, cache, nReads, frames>>
    /\ LET rec0 == [IdleRec EXCEPT !.op = "upload", !.table = t]
           mapped == MapAndCleanColumns(f.df)
           info == (IF NeedsIdentifier(f.df.cols)
                    THEN {Msg("generated", 0)} ELSE {})
                     \cup (IF IgnoredColumns(f.df.cols) # <<>>
                           THEN {Msg("ignored", 0)} ELSE {})
           cleaned == DropNa(mapped, "identifier")
       IN  CASE f.kind = "none" ->
                  Stop(s, [rec0 EXCEPT !.out = "no_file"])
             [] f.kind = "other" ->
                  Stop(s, [rec0 EXCEPT !.out = "unreadable"])
             [] f.kind = "corrupt" ->
                  Stop(s, [rec0 EXCEPT !.out = "error",
                                       !.shown = {Msg("unexpected_error", 0)}])
             [] OTHER ->
                  IF "identifier" \notin Range(mapped.cols)
                  THEN Stop(s, [rec0 EXCEPT !.out = "no_identifier",
                                            !.shown = info])
                  ELSE IF cleaned.rows = <<>>
                  THEN Stop(s, [rec0 EXCEPT !.out = "empty", !.shown = info])
                  ELSE /\ ss' = [ss EXCEPT ![s] =
                                   [rec0 EXCEPT !.df = cleaned, !.shown = info]]
                       /\ pc' = [pc EXCEPT ![s] = "reconcile"]

\* Steps 4-6 up to the duplicate query: fetch the table's columns, check the
\* required ones, project, coerce the key
UploadReconcile(s) ==
    /\ pc[s] = "reconcile"
    /\ UNCHANGED <<db, dbVer, doneVer, cache, nUploads, nReads, frames>>
    /\ LET rec == ss[s]
           t == rec.table
           key == UniqueKey(t)
           missing == MissingCols(rec.df, t)
           final == Project(rec.df, DbCols(t))
           rec1 == [rec EXCEPT !.uploadCols = Range(rec.df.cols),
                               !.rowsIn = Len(rec.df.rows),
                               !.recon = final]
           coerced == CoerceKey(final, key)
           kept == DropNa(coerced, key)
           ids == UploadIds(kept, key)
           rec2 == [rec1 EXCEPT
                      !.df = kept, !.ids = ids,
                      !.shown = @ \cup {Msg("validating", 0),
                                        Msg("checking", 0)},
                      !.keysIn = {final.rows[r][CHOOSE j \in
                                     ColIdx(final.cols, key) : TRUE] :
                                     r \in DOMAIN final.rows},
                      !.keysDb = DbKeys(db[t], t),
                      !.dropped = Cardinality({r \in DOMAIN final.rows :
                          LET c == final.rows[r][CHOOSE j \in
                                      ColIdx(final.cols, key) : TRUE]
                          IN  ~IsNull(c) /\ IsNull(ToNumeric(c))})]
       IN  \/ Unexpected(s)                  \* the schema query raises
           \/ /\ missing # {}
              /\ Stop(s, [rec EXCEPT !.out = "missing_cols",
                                     !.uploadCols = Range(rec.df.cols),
                                     !.rowsIn = Len(rec.df.rows),
                                     !.missing = missing,
                                     !.shown = @ \cup {Msg("missing_cols", 0)}])
           \/ /\ missing = {}
              /\ key = ""
              /\ ss' = [ss EXCEPT ![s] = [rec1 EXCEPT !.df = final]]
              /\ pc' = [pc EXCEPT ![s] = "append"]
           \/ /\ missing = {}
              /\ key # ""
              /\ Cardinality(ColIdx(final.cols, key)) > 1
              /\ Stop(s, [rec1 EXCEPT !.out = "error",
                            !.shown = @ \cup {Msg("validating", 0),
                                              Msg("unexpected_error", 0)}])
           \/ /\ missing = {}
              /\ key # ""
              /\ Cardinality(ColIdx(final.cols, key)) = 1
              /\ ss' = [ss EXCEPT ![s] = rec2]
              /\ pc' = [pc EXCEPT ![s] =
                           IF ids # <<>> THEN "precheck" ELSE "append"]

\* A pre-check that reports the duplicates and goes on to the append.
UploadPreCheckNoStop(s) ==
    /\ pc[s] = "precheck"
    /\ UNCHANGED <<db, dbVer, doneVer, cache, nUploads, nReads, frames>>
    /\ LET rec == ss[s]
           existing == ExistingIds(db[rec.table], rec.table, rec.ids)
           dup == DuplicateIds(rec.ids, existing)
       IN  /\ ss' = [ss EXCEPT ![s] =
                       [rec EXCEPT !.keysDb = DbKeys(db[rec.table], rec.table),
                                   !.dups = SortedSeq(Range(dup)),
                                   !.preVer = dbVer]]
           /\ pc' = [pc EXCEPT ![s] = "append"]

\* Step 6, the query: the ids already stored, the duplicates among the upload
UploadPreCheck(s) ==
    /\ pc[s] = "precheck"
    /\ UNCHANGED <<db, dbVer, doneVer, cache, nUploads, nReads, frames>>
    /\ LET rec == ss[s]
           existing == ExistingIds(db[rec.table], rec.table, rec.ids)
           dup == DuplicateIds(rec.ids, existing)
       IN  \/ Unexpected(s)                  \* the query raises
           \/ /\ dup # <<>>
              /\ Stop(s, [rec EXCEPT !.out = "duplicates",
                                     !.keysDb = DbKeys(db[rec.table], rec.table),
                                     !.dups = SortedSeq(Range(dup)),
                                     !.shown = @ \cup
                                         {Msg("duplicates", Len(dup))}])
           \/ /\ dup = <<>>
              /\ ss' = [ss EXCEPT ![s] =
                          [rec EXCEPT !.keysDb =
                                         DbKeys(db[rec.table], rec.table),
                                      !.preVer = dbVer]]
              /\ pc' = [pc EXCEPT ![s] = "append"]


\* A store that refuses a row whose key value it already holds.
RECURSIVE AppendRowsUnique(_, _, _)
AppendRowsUnique(t, rows, new) ==
    IF new = <<>> THEN rows
    ELSE AppendRowsUnique(t,
            IF UniqueKey(t) # ""
               /\ Head(new)[DbColPos(t, UniqueKey(t))] \in DbKeys(rows, t)
            THEN rows ELSE Append(rows, Head(new)),
            Tail(new))

\* to_sql(target_table, if_exists='append', index=False): the table afterwards
AppendRows(t, rows, new) == rows \o new

\* Step 7: the bulk append, in one transaction
UploadAppend(s) ==
    /\ pc[s] = "append"
    /\ UNCHANGED <<doneVer, cache, nUploads, nReads, frames>>
    /\ LET rec == ss[s]
           t == rec.table
           new == SqlRows(rec.df, t)
           ver == IF new = <<>> THEN dbVer ELSE dbVer + 1
       IN  \/ /\ Unexpected(s)               \* to_sql raises: nothing is written
              /\ UNCHANGED <<db, dbVer>>
           \/ /\ db' = [db EXCEPT ![t] = AppendRows(t, @, new)]
              /\ dbVer' = ver
              /\ ss' = [ss EXCEPT ![s] =
                          [rec EXCEPT !.wrote = TRUE,
                                      !.appVer = ver,
                                      !.shown = @ \cup
                                          {Msg("success", Len(rec.df.rows))}]]
              /\ pc' = [pc EXCEPT ![s] = "clear"]

\* An upload that forgets to clear the cache.
UploadClearForgotten(s) ==
    /\ pc[s] = "clear"
    /\ UNCHANGED <<db, dbVer, cache, nUploads, nReads, frames>>
    /\ doneVer' = IF ss[s].appVer > doneVer THEN ss[s].appVer ELSE doneVer
    /\ Stop(s, [ss[s] EXCEPT !.out = "success"])

\* st.cache_data.clear() after the append; a read that is computing its value
\* meanwhile is marked
UploadClear(s) ==
    /\ pc[s] = "clear"
    /\ UNCHANGED <<db, dbVer, nUploads, nReads, frames>>
    /\ doneVer' = IF ss[s].appVer > doneVer THEN ss[s].appVer ELSE doneVer
    /\ cache' = [k \in CacheKeys |-> NoEntry]
    /\ ss' = [x \in Sessions |->
                IF x = s THEN [ss[s] EXCEPT !.out = "success"]
                ELSE IF pc[x] \in {"query", "store"}
                THEN [ss[x] EXCEPT !.cleared = TRUE]
                ELSE ss[x]]
    /\ pc' = [pc EXCEPT ![s] = "done"]

\* the script run is over; the next click starts from scratch
Finish(s) ==
    /\ pc[s] = "done"
    /\ ss' = [ss EXCEPT ![s] = IdleRec]
    /\ pc' = [pc EXCEPT ![s] = "idle"]
    /\ UNCHANGED <<db, dbVer, doneVer, cache, nUploads, nReads, frames>>

-----------------------------------------------------------------------------
(* The read path: load_data and view_table_data, memoized by st.cache_data *)

\* LIMIT 1000 of load_data's query, scaled to the model's tables
LoadLimit == 3

Min(a, b) == IF a < b THEN a ELSE b

\* a result row: the cells, and where they came from (src: the row of the
\* table read, std: the joined alarm_standards row, 0 for none)
DataCell(dbs, i, name) == dbs["data"][i][DbColPos("data", name)]

StdMatches(dbs, i) ==
    {j \in DOMAIN dbs["alarm_standards"] :
        /\ ~IsNull(DataCell(dbs, i, "alarm_standard"))
        /\ dbs["alarm_standards"][j][DbColPos("alarm_standards", "standard")]
              = DataCell(dbs, i, "alarm_standard")}

\* FROM data d LEFT JOIN alarm_standards stds ON d.alarm_standard = stds.standard
\* WHERE d.value IS NOT NULL
Joined(dbs) ==
    {p \in [src : DOMAIN dbs["data"],
            std : 0..Len(dbs["alarm_standards"])] :
        /\ ~IsNull(DataCell(dbs, p.src, "value"))
        /\ IF StdMatches(dbs, p.src) = {} THEN p.std = 0
           ELSE p.std \in StdMatches(dbs, p.src)}

\* the sort key of ORDER BY d.date DESC: NULL sorts first
DateKey(c) == IF IsNull(c) THEN 1000000 ELSE c.v

\* ORDER BY d.date DESC LIMIT n: which rows are returned; rows of equal date
\* may fall on either side of the limit
TopSets(dbs, n) ==
    LET C == Joined(dbs)
    IN  {S \in SUBSET C :
            /\ Cardinality(S) = Min(n, Cardinality(C))
            /\ \A a \in S, b \in C \ S :
                  DateKey(DataCell(dbs, a.src, "date"))
                     >= DateKey(DataCell(dbs, b.src, "date"))}

\* the selected columns of one joined row
LoadRow(dbs, p) ==
    [src |-> p.src, std |-> p.std,
     cells |->
        <<DataCell(dbs, p.src, "equipment_name"),
          DataCell(dbs, p.src, "component"),
          DataCell(dbs, p.src, "point_measurement"),
          DataCell(dbs, p.src, "date"),
          DataCell(dbs, p.src, "value"),
          DataCell(dbs, p.src, "alarm_standard")>>
        \o (IF p.std = 0 THEN <<Null, Null, Null, Null>>
            ELSE SubSeq(dbs["alarm_standards"][p.std], 2, 5))]

\* rows in descending date order (equal dates in join order)
RECURSIVE OrderDesc(_, _)
OrderDesc(dbs, S) ==
    IF S = {} THEN <<>>
    ELSE LET Before(a, b) ==
                 \/ DataCell(dbs, a.src, "date").v > DataCell(dbs, b.src, "date").v
                 \/ /\ DataCell(dbs, a.src, "date").v = DataCell(dbs, b.src, "date").v
                    /\ \/ a.src < b.src
                       \/ a.src = b.src /\ a.std <= b.std
             m == CHOOSE a \in S : \A b \in S : Before(a, b)
         IN  <<LoadRow(dbs, m)>> \o OrderDesc(dbs, S \ {m})

\* load_data(): the query, then to_datetime and dropna(subset=['date'])
LoadDataResults(dbs) ==
    {OrderDesc(dbs, {p \in S : ~IsNull(DataCell(dbs, p.src, "date"))}) :
        S \in TopSets(dbs, LoadLimit)}

\* .dt.strftime('%Y-%m-%d %H:%M'), one cell
FormatDate(c) == IF IsNull(c) THEN Null ELSE [t |-> "datestr", v |-> c.v]

\* A table viewer whose query carries load_data's LIMIT.
ViewTableCapped(dbs, t) ==
    [i \in 1..Min(Len(dbs[t]), LoadLimit) |->
        [src |-> i, std |-> 0, cells |-> dbs[t][i]]]

\* view_table_data(table_name): SELECT * FROM table_name
ViewTable(dbs, t) ==
    [i \in DOMAIN dbs[t] |->
        [src |-> i, std |-> 0,
         cells |-> IF t = "data"
                   THEN [j \in DOMAIN DbCols(t) |->
                           IF DbCols(t)[j] = "date"
                           THEN FormatDate(dbs[t][i][j]) ELSE dbs[t][i][j]]
                   ELSE dbs[t][i]]]

\* what a cached function may compute, by cache key
ReadResults(dbs, k) ==
    IF k = "load_data" THEN LoadDataResults(dbs) ELSE {ViewTable(dbs, k)}

\* the cached call: a hit returns the entry, a miss goes on to compute
ReadStart(s, k) ==
    /\ pc[s] = "idle"
    /\ nReads < MaxReads
    /\ nReads' = nReads + 1
    /\ UNCHANGED <<db, dbVer, doneVer, cache, nUploads, frames>>
    /\ LET rec0 == [IdleRec EXCEPT !.op = "read", !.key = k]
       IN  IF cache[k].has
           THEN Stop(s, [rec0 EXCEPT !.out = "hit", !.res = cache[k].rows,
                                     !.resOk = cache[k].ok,
                                     !.resVer = cache[k].ver,
                                     !.retVer = doneVer])
           ELSE /\ ss' = [ss EXCEPT ![s] = rec0]
                /\ pc' = [pc EXCEPT ![s] = "query"]

\* the body of the cached function: the query, or the except-branch that
\* returns an empty frame
ReadQuery(s) ==
    /\ pc[s] = "query"
    /\ UNCHANGED <<db, dbVer, doneVer, cache, nUploads, nReads, frames>>
    /\ pc' = [pc EXCEPT ![s] = "store"]
    /\ \/ \E r \in ReadResults(db, ss[s].key) :
             ss' = [ss EXCEPT ![s] = [@ EXCEPT !.res = r, !.resOk = TRUE,
                                               !.resVer = dbVer]]
       \/ ss' = [ss EXCEPT ![s] = [@ EXCEPT !.res = <<>>, !.resOk = FALSE,
                                            !.resVer = dbVer,
                                            !.shown = {Msg("load_error", 0)}]]

\* A memoizer that keeps only the results of queries that succeeded.
ReadStoreOkOnly(s) ==
    /\ pc[s] = "store"
    /\ UNCHANGED <<db, dbVer, doneVer, nUploads, nReads, frames>>
    /\ Stop(s, [ss[s] EXCEPT !.out = "miss", !.retVer = doneVer])
    /\ IF ss[s].resOk
       THEN cache' = [cache EXCEPT ![ss[s].key] =
                        [has |-> TRUE, rows |-> ss[s].res, ok |-> TRUE,
                         ver |-> ss[s].resVer]]
       ELSE UNCHANGED cache

\* the memoizer stores the value and returns it.  When the cache was cleared
\* while the value was being computed, the value may land in the cleared
\* cache or in a cache object that is no longer looked up.
ReadStore(s) ==
    /\ pc[s] = "store"
    /\ UNCHANGED <<db, dbVer, doneVer, nUploads, nReads, frames>>
    /\ Stop(s, [ss[s] EXCEPT !.out = "miss", !.retVer = doneVer])
    /\ \/ cache' = [cache EXCEPT ![ss[s].key] =
                       [has |-> TRUE, rows |-> ss[s].res, ok |-> ss[s].resOk,
                        ver |-> ss[s].resVer]]
       \/ /\ ss[s].cleared
          /\ UNCHANGED cache

-----------------------------------------------------------------------------
(* Monitoring Dashboard: the cascading filters over the frame load_data    *)
(* returned                                                                *)

\* the columns of load_data's frame, in the order LoadRow lists them
FrameCols ==
    <<"equipment_name", "component", "point_measurement", "date", "value",
      "alarm_standard", "excellent", "acceptable", "requires_evaluation",
      "unacceptable">>

FrameColPos(name) == CHOOSE j \in DOMAIN FrameCols : FrameCols[j] = name

EquipmentName(r) == r.cells[FrameColPos("equipment_name")]
Component(r) == r.cells[FrameColPos("component")]
PointMeasurement(r) == r.cells[FrameColPos("point_measurement")]
Value(r) == r.cells[FrameColPos("value")]

\* sorted(series.dropna().unique()) over text cells
SortedOptions(cells) ==
    LET S == {c \in cells : ~IsNull(c)}
        vs == SortedSeq({c.v : c \in S})
    IN  [i \in DOMAIN vs |-> CHOOSE c \in S : c.v = vs[i]]

\* df[df[col] == choice]: a comparison with None or NaN selects no row
WhereEq(df, col, choice) ==
    SelectIdx(df, {i \in DOMAIN df :
                      ~IsNull(choice) /\ df[i].cells[col] = choice}, 1)

\* what st.selectbox returns: one of the options, None when there are none
SelectBox(options) == IF options = <<>> THEN {Null} ELSE Range(options)

\* what st.multiselect returns: any of the options, possibly none
MultiSelect(options) == SUBSET Range(options)

EquipmentOptions(df) == SortedOptions({EquipmentName(r) : r \in Range(df)})
FilteredByEq(df, eq) ==
    WhereEq(df, FrameColPos("equipment_name"), eq)
ComponentOptions(df, eq) ==
    SortedOptions({Component(r) : r \in Range(FilteredByEq(df, eq))})
ComponentDf(df, eq, comp) ==
    WhereEq(FilteredByEq(df, eq), FrameColPos("component"), comp)
PointOptions(df, eq, comp) ==
    SortedOptions({PointMeasurement(r) : r \in Range(ComponentDf(df, eq, comp))})

\* component_df[component_df["point_measurement"].isin(point_choices)]
FilteredDf(df, eq, comp, pts) ==
    LET cdf == ComponentDf(df, eq, comp)
    IN  SelectIdx(cdf, {i \in DOMAIN cdf : PointMeasurement(cdf[i]) \in pts}, 1)

\* the rest of the dashboard run after load_data() returned: st.stop() on an
\* empty frame, else the three filters and the rows shown for the user's
\* choices
Dashboard(s) ==
    /\ pc[s] = "done"
    /\ ss[s].op = "read"
    /\ ss[s].key = "load_data"
    /\ ~ss[s].dash.run
    /\ UNCHANGED <<db, dbVer, doneVer, cache, pc, nUploads, nReads, frames>>
    /\ LET df == ss[s].res
       IN  IF df = <<>>
           THEN ss' = [ss EXCEPT ![s].dash =
                          [NoDash EXCEPT !.run = TRUE, !.stopped = TRUE]]
           ELSE \E eq \in SelectBox(EquipmentOptions(df)) :
                \E comp \in SelectBox(ComponentOptions(df, eq)) :
                \E pts \in MultiSelect(PointOptions(df, eq, comp)) :
                   ss' = [ss EXCEPT ![s].dash =
                            [run |-> TRUE, stopped |-> FALSE,
                             equipment_options |-> EquipmentOptions(df),
                             equipment_choice |-> eq,
                             component_options |-> ComponentOptions(df, eq),
                             component_choice |-> comp,
                             point_options |-> PointOptions(df, eq, comp),
                             point_choices |-> pts,
                             filtered_df |->
                                IF pts = {} THEN <<>>
                                ELSE FilteredDf(df, eq, comp, pts)]]

\* the dashboard run is over once the page is rendered
DashboardEnd(s) ==
    /\ (ss[s].op = "read" /\ ss[s].key = "load_data") => ss[s].dash.run
    /\ Finish(s)

-----------------------------------------------------------------------------
(* The ways an entry leaves the cache besides a successful upload *)

\* st.cache_data.clear() by session s: every entry goes, and a read of
\* another session that is computing its value meanwhile is marked
ClearedBy(s) ==
    [x \in Sessions |->
        IF x # s /\ pc[x] \in {"query", "store"}
        THEN [ss[x] EXCEPT !.cleared = TRUE] ELSE ss[x]]

\* the dashboard's Refresh Data button, which is rendered only below the
\* filters: clear the caches and st.rerun(), whose load_data() misses
RefreshData(s) ==
    /\ pc[s] = "done"
    /\ ss[s].op = "read"
    /\ ss[s].key = "load_data"
    /\ ss[s].dash.run
    /\ ~ss[s].dash.stopped
    /\ nReads < MaxReads
    /\ nReads' = nReads + 1
    /\ cache' = [k \in CacheKeys |-> NoEntry]
    /\ ss' = [ClearedBy(s) EXCEPT ![s] =
                 [IdleRec EXCEPT !.op = "read", !.key = "load_data"]]
    /\ pc' = [pc EXCEPT ![s] = "query"]
    /\ UNCHANGED <<db, dbVer, doneVer, nUploads, frames>>

\* the viewer's Refresh Table View button, rendered above the table: clear
\* the cache and st.rerun(), whose view_table_data(table_to_view) misses
RefreshTableView(s, t) ==
    /\ pc[s] = "idle"
    /\ nReads < MaxReads
    /\ nReads' = nReads + 1
    /\ cache' = [k \in CacheKeys |-> NoEntry]
    /\ ss' = [ClearedBy(s) EXCEPT ![s] =
                 [IdleRec EXCEPT !.op = "read", !.key = t]]
    /\ pc' = [pc EXCEPT ![s] = "query"]
    /\ UNCHANGED <<db, dbVer, doneVer, nUploads, frames>>

\* ttl=300 of load_data, ttl=60 of view_table_data: the entry's time has run
\* out (the clock itself is left out: an entry may expire at any moment)
Expire(k) ==
    /\ cache[k].has
    /\ cache' = [cache EXCEPT ![k] = NoEntry]
    /\ UNCHANGED <<db, dbVer, doneVer, pc, ss, nUploads, nReads, frames>>

-----------------------------------------------------------------------------
(* Initial state and the specifications *)

\* the tables before the first upload: one reading and the standard it names
InitDb ==
    [t \in TableOptions |->
        CASE t = "data" ->
               <<MakeFrame(DbCols("data"),
                    <<[k |-> Num(2), val |-> Num(10), date |-> Num(2)]>>).rows[1]>>
          [] t = "alarm_standards" ->
               <<MakeFrame(DbCols("alarm_standards"),
                    <<[k |-> Num(2), val |-> Null, date |-> Null]>>).rows[1]>>
          [] OTHER -> <<>>]

Init ==
    /\ db = InitDb
    /\ dbVer = 0
    /\ doneVer = 0
    /\ cache = [k \in CacheKeys |-> NoEntry]
    /\ pc = [s \in Sessions |-> "idle"]
    /\ ss = [s \in Sessions |-> IdleRec]
    /\ nUploads = 0
    /\ nReads = 0
    /\ frames = <<>>

\* one session uploading: every handler runs to its end before the next click
Next ==
    \/ \E t \in TableOptions, f \in Files : UploadStart(1, t, f)
    \/ UploadReconcile(1)
    \/ UploadPreCheck(1)
    \/ UploadAppend(1)
    \/ UploadClear(1)
    \/ Finish(1)

Spec == Init /\ [][Next]_vars

\* files of the data table's headers whose keys are new, and a file of
\* alarm standards
ReadFiles ==
    {CsvFile(HData, specs) :
        specs \in SeqsUpTo({[k |-> Num(4), val |-> Null, date |-> Num(4)],
                            [k |-> Num(6), val |-> Num(10), date |-> Null],
                            [k |-> Num(8), val |-> Num(10), date |-> Num(6)]},
                           MaxRows)}
      \cup {CsvFile(<<"standard", "excellent", "acceptable",
                      "requires_evaluation", "Unacceptable Alarm">>, specs) :
               specs \in SeqsUpTo({[k |-> Num(4), val |-> Null, date |-> Null]},
                                  MaxRows)}

\* one session uploading and reading in turn
NextRead ==
    \/ \E t \in {"data", "alarm_standards"}, f \in ReadFiles :
          UploadStart(1, t, f)
    \/ UploadReconcile(1)
    \/ UploadPreCheck(1)
    \/ UploadAppend(1)
    \/ UploadClear(1)
    \/ \E k \in CacheKeys : ReadStart(1, k)
    \/ ReadQuery(1)
    \/ ReadStore(1)
    \/ Finish(1)

SpecRead == Init /\ [][NextRead]_vars

\* one-row files of the data table's headers
RaceFiles ==
    {CsvFile(HData, <<spec>>) :
        spec \in {[k |-> Num(2), val |-> Num(10), date |-> Num(2)],
                  [k |-> Num(4), val |-> Num(10), date |-> Num(4)],
                  [k |-> Num(6), val |-> Num(10), date |-> Num(6)]}}

\* two sessions, their handlers interleaved between database calls
NextRace ==
    \E s \in Sessions :
        \/ \E f \in RaceFiles : UploadStart(s, "data", f)
        \/ UploadReconcile(s)
        \/ UploadPreCheck(s)
        \/ UploadAppend(s)
        \/ UploadClear(s)
        \/ \E k \in {"load_data", "data"} : ReadStart(s, k)
        \/ ReadQuery(s)
        \/ ReadStore(s)
        \/ Finish(s)

SpecRace == Init /\ [][NextRace]_vars

-----------------------------------------------------------------------------
(* The column normalizer on its own *)

\* header rows of files: up to MaxHeaders distinct labels, and the column
\* lists of the tables themselves
NormHeaders ==
    {hs \in SeqsUpTo(Labels, MaxHeaders) :
        /\ hs # <<>>
        /\ \A i, j \in DOMAIN hs : i # j => hs[i] # hs[j]}
      \cup {DbCols(t) : t \in TableOptions}

NormInit ==
    /\ \E hs \in NormHeaders :
          frames = <<MakeFrame(hs, <<[k |-> Num(2), val |-> Num(10),
                                      date |-> Num(2)]>>)>>
    /\ db = InitDb
    /\ dbVer = 0
    /\ doneVer = 0
    /\ cache = [k \in CacheKeys |-> NoEntry]
    /\ pc = [s \in Sessions |-> "idle"]
    /\ ss = [s \in Sessions |-> IdleRec]
    /\ nUploads = 0
    /\ nReads = 0

\* map_and_clean_columns applied to the frame it returned last
NormalizeAgain ==
    /\ Len(frames) \in 1..2
    /\ frames' = Append(frames, MapAndCleanColumns(frames[Len(frames)]))
    /\ UNCHANGED <<db, dbVer, doneVer, cache, pc, ss, nUploads, nReads>>

NextNorm == NormalizeAgain

SpecNorm == NormInit /\ [][NextNorm]_vars

-----------------------------------------------------------------------------
(* The dashboard over uploaded readings *)

\* a row of a readings file under the headers HData
Reading(id, eq, comp, pt, date, val) ==
    <<Num(2 * id), eq, comp, pt, Num(4), date, val>>

\* readings of two equipments, with blank components, points, dates and values
DashRows ==
    { Reading(2, Str(1), Str(1), Str(1), Num(6), Num(10)),
      Reading(3, Str(1), Str(2), Str(2), Num(4), Num(10)),
      Reading(4, Str(1), Str(3), Str(1), Null, Num(10)),
      Reading(5, Str(1), Str(3), Str(2), Null, Num(10)),
      Reading(6, Str(1), Null, Str(1), Num(8), Num(10)),
      Reading(7, Str(2), Str(1), Null, Num(2), Num(10)),
      Reading(8, Str(1), Str(1), Str(3), Num(8), Null),
      Reading(9, Null, Str(1), Str(1), Num(6), Num(10)) }

DashFiles ==
    {[kind |-> "csv", df |-> [cols |-> HData, rows |-> rows]] :
        rows \in {q \in SeqsUpTo(DashRows, MaxRows) :
                     /\ q # <<>>
                     /\ \A i, j \in DOMAIN q : i < j => q[i][1].v < q[j][1].v}}

\* one session uploading readings and opening the dashboard
NextDash ==
    \/ \E f \in DashFiles : UploadStart(1, "data", f)
    \/ UploadReconcile(1)
    \/ UploadPreCheck(1)
    \/ UploadAppend(1)
    \/ UploadClear(1)
    \/ ReadStart(1, "load_data")
    \/ ReadQuery(1)
    \/ ReadStore(1)
    \/ Dashboard(1)
    \/ DashboardEnd(1)

SpecDash == Init /\ [][NextDash]_vars

-----------------------------------------------------------------------------
(* The cache over queries that may fail *)

\* one session reading, refreshing and uploading, while entries expire
NextCache ==
    \/ \E f \in RaceFiles : UploadStart(1, "data", f)
    \/ UploadReconcile(1)
    \/ UploadPreCheck(1)
    \/ UploadAppend(1)
    \/ UploadClear(1)
    \/ \E k \in CacheKeys : ReadStart(1, k)
    \/ ReadQuery(1)
    \/ ReadStore(1)
    \/ Dashboard(1)
    \/ RefreshData(1)
    \/ \E t \in TableOptions : RefreshTableView(1, t)
    \/ \E k \in CacheKeys : Expire(k)
    \/ DashboardEnd(1)

SpecCache == Init /\ [][NextCache]_vars

-----------------------------------------------------------------------------
(* Claims *)

KeyedTables == {t \in TableOptions : UniqueKey(t) # ""}

\* an upload that got past schema reconciliation with its key coerced
PastCoercion(s) ==
    /\ ss[s].op = "upload"
    /\ ss[s].table \in KeyedTables
    /\ \/ pc[s] \in {"precheck", "append", "clear"}
       \/ pc[s] = "done" /\ ss[s].out \in {"duplicates", "success"}

\* an upload on which the duplicate check has given its verdict
PastDuplicateCheck(s) ==
    /\ PastCoercion(s)
    /\ pc[s] # "precheck"

\* K_in /\ K_db: the non-null key values of the reconciled batch that the
\* table already holds
Conflicts(s) == {c \in ss[s].keysIn : ~IsNull(c)} \cap ss[s].keysDb

\* C1: on a keyed table the upload is rejected as a duplicate-key conflict
\* exactly when some incoming key value is already stored, and the reported
\* list is exactly the set of those values, sorted and without repeats.
C1_DuplicateCheckExact ==
    \A s \in Sessions :
        PastDuplicateCheck(s) =>
            /\ (ss[s].out = "duplicates") <=> (Conflicts(s) # {})
            /\ ss[s].out = "duplicates" =>
                  {IdCell(n) : n \in Range(ss[s].dups)} = Conflicts(s)

\* every validation step of the handler let this batch through
Validated(rec) ==
    /\ rec.op = "upload"
    /\ rec.out = "none"
    /\ Range(DbCols(rec.table)) \subseteq rec.uploadCols
    /\ rec.rowsIn > 0
    /\ \A n \in Range(rec.ids) : IdCell(n) \notin rec.keysDb

\* C2: the only write is the single bulk append, made by an upload that passed
\* every validation step, and it adds the batch's rows and nothing else; an
\* upload that ends in a rejection has written nothing and its last step
\* leaves the tables as they were.
C2_NoPartialCommit ==
    [][ /\ db' # db =>
              \E s \in Sessions :
                  /\ pc[s] = "append" /\ pc'[s] = "clear"
                  /\ Validated(ss[s])
                  /\ db' = [db EXCEPT ![ss[s].table] =
                                @ \o SqlRows(ss[s].df, ss[s].table)]
        /\ \A s \in Sessions :
              (pc[s] # "done" /\ pc'[s] = "done" /\ ss'[s].op = "upload"
                  /\ ss'[s].out # "success")
                 => (db' = db /\ ~ss'[s].wrote)
      ]_vars

\* a second upload is rejected for duplicates after a first one was appended
C2_Witness ==
    \E s \in Sessions :
        /\ pc[s] = "done"
        /\ ss[s].out = "duplicates"
        /\ dbVer > 0

\* C3: in every keyed table the stored key values are pairwise distinct.
C3_KeysDistinct ==
    \A t \in KeyedTables :
        \A i, j \in DOMAIN db[t] :
            i # j => db[t][i][DbColPos(t, UniqueKey(t))]
                        # db[t][j][DbColPos(t, UniqueKey(t))]

\* an upload whose columns have been compared with the table's
PastSchemaCheck(s) ==
    /\ ss[s].op = "upload"
    /\ ss[s].uploadCols # {}

\* C5: under the strict policy an upload whose column set differs from the
\* table's in either direction fails at reconciliation, writes nothing, and the
\* failure reports the symmetric difference of the two column sets.
C5_StrictPolicy ==
    \A s \in Sessions :
        LET up == ss[s].uploadCols
            dest == Range(DbCols(ss[s].table))
        IN  (PastSchemaCheck(s) /\ up # dest) =>
                /\ pc[s] = "done"
                /\ ss[s].out = "missing_cols"
                /\ ~ss[s].wrote
                /\ ss[s].missing = (dest \ up) \cup (up \ dest)

\* C6: an upload whose columns include all of the table's is reconciled to
\* exactly the table's columns in the table's order, with as many rows as
\* entered reconciliation; an upload lacking a column of the table fails,
\* reporting exactly the table's columns it lacks.
C6_LenientPolicy ==
    \A s \in Sessions :
        LET up == ss[s].uploadCols
            dest == Range(DbCols(ss[s].table))
        IN  PastSchemaCheck(s) =>
                IF dest \subseteq up
                THEN /\ ss[s].out # "missing_cols"
                     /\ ss[s].recon.cols = DbCols(ss[s].table)
                     /\ Len(ss[s].recon.rows) = ss[s].rowsIn
                ELSE /\ pc[s] = "done"
                     /\ ss[s].out = "missing_cols"
                     /\ ss[s].missing = dest \ up

\* C7: rows dropped because their key failed numeric coercion are reported
\* with their count; a success message for fewer rows than the reconciled
\* batch held comes with that report.
C7_CoercionReported ==
    \A s \in Sessions :
        PastCoercion(s) =>
            /\ ss[s].dropped > 0 =>
                  Msg("dropped_rows", ss[s].dropped) \in ss[s].shown
            /\ \A m \in ss[s].shown :
                  (m.msg = "success" /\ m.n < Len(ss[s].recon.rows)) =>
                      Msg("dropped_rows", ss[s].dropped) \in ss[s].shown

\* the database's own column names
CanonicalNames ==
    {ColumnMapping[k] : k \in DOMAIN ColumnMapping}
      \cup UNION {Range(DbCols(t)) : t \in TableOptions}

\* the normalizer has run on a frame whose headers are all canonical
CanonicalRun ==
    /\ Len(frames) >= 2
    /\ Range(frames[1].cols) \subseteq CanonicalNames

\* C9: a header set of canonical names comes back from map_and_clean_columns
\* as the same header set, and a second application returns the header set of
\* the first.
C9_CanonicalUnchanged ==
    /\ CanonicalRun => Range(frames[2].cols) = Range(frames[1].cols)
    /\ Len(frames) = 3 => Range(frames[3].cols) = Range(frames[2].cols)

\* C9 as amended: canonical headers come back unchanged and in order when
\* identifier is among them, and with identifier added as the last column when
\* it is not; a second application returns the headers of the first.
C9_CanonicalUpToIdentifier ==
    /\ CanonicalRun =>
          frames[2].cols =
              IF "identifier" \in Range(frames[1].cols)
              THEN frames[1].cols
              ELSE Append(frames[1].cols, "identifier")
    /\ Len(frames) = 3 => frames[3].cols = frames[2].cols

\* the alarm_standards columns, which hold no identifier, normalized twice
C9_Witness ==
    /\ Len(frames) = 3
    /\ frames[1].cols = DbCols("alarm_standards")
    /\ frames[3].cols = Append(DbCols("alarm_standards"), "identifier")

\* the table a cache key reads
ReadTable(k) == IF k = "load_data" THEN "data" ELSE k

\* the rows of a table that uploads appended
Appended(t) == (Len(InitDb[t]) + 1)..Len(db[t])

\* a read has returned a result a query computed
ReadReturned(s) ==
    /\ pc[s] = "done"
    /\ ss[s].op = "read"
    /\ ss[s].resOk

Returns(s, i) == \E r \in Range(ss[s].res) : r.src = i

RowsWithKey(t, n) ==
    {i \in DOMAIN db[t] : db[t][i][DbColPos(t, UniqueKey(t))] = IdCell(n)}

\* both sessions passed the duplicate pre-check before either appended, and
\* both appends succeeded
Raced(s1, s2) ==
    /\ s1 # s2
    /\ \A s \in {s1, s2} :
          /\ ss[s].op = "upload"
          /\ pc[s] \in {"clear", "done"}
          /\ ss[s].wrote
          /\ ss[s].ids # <<>>
    /\ ss[s1].table = ss[s2].table
    /\ ss[s1].preVer < ss[s2].appVer
    /\ ss[s2].preVer < ss[s1].appVer

\* C10: when two sessions uploading to the same table both run the duplicate
\* pre-check before either appends, both pass and both append: every key
\* value their batches share is then held by two rows of the table.
C10_RaceLeavesDuplicates ==
    \A s1, s2 \in Sessions :
        Raced(s1, s2) =>
            \A n \in Range(ss[s1].ids) \cap Range(ss[s2].ids) :
                Cardinality(RowsWithKey(ss[s1].table, n)) >= 2

\* the race has happened on a key value the table did not hold
C10_Witness ==
    \E s1, s2 \in Sessions :
        /\ Raced(s1, s2)
        /\ \E n \in Range(ss[s1].ids) \cap Range(ss[s2].ids) :
              /\ IdCell(n) \notin DbKeys(InitDb[ss[s1].table], ss[s1].table)
              /\ Cardinality(RowsWithKey(ss[s1].table, n)) = 2

\* C4: the cache holds no entry computed before an append whose upload has
\* cleared the cache, and a read returns a result that reflects every upload
\* completed before the read returned.
C4_CacheFresh ==
    /\ \A k \in CacheKeys : cache[k].has => cache[k].ver >= doneVer
    /\ \A s \in Sessions :
          (pc[s] = "done" /\ ss[s].op = "read")
             => ss[s].resVer >= ss[s].retVer

\* the data rows of non-null value
ValuedRows(dbs) ==
    {i \in DOMAIN dbs["data"] : ~IsNull(DataCell(dbs, i, "value"))}

\* the n most recent rows of E, a row without a date standing at nullKey
MostRecent(dbs, E, n, nullKey) ==
    LET Key(c) == IF IsNull(c) THEN nullKey ELSE c.v
    IN  {S \in SUBSET E :
            /\ Cardinality(S) = Min(n, Cardinality(E))
            /\ \A a \in S, b \in E \ S :
                  Key(DataCell(dbs, a, "date")) >= Key(DataCell(dbs, b, "date"))}

\* "the at most 1000 most recent non-null-value rows ordered by date
\* descending", in every reading of where a row without a date stands:
\* after the dated rows, before them, or not among the rows at all
LoadedRowSets(dbs) ==
    LET Dated == {i \in ValuedRows(dbs) : ~IsNull(DataCell(dbs, i, "date"))}
    IN  MostRecent(dbs, ValuedRows(dbs), LoadLimit, 0 - 1)
          \cup MostRecent(dbs, ValuedRows(dbs), LoadLimit, DateKey(Null))
          \cup MostRecent(dbs, Dated, LoadLimit, DateKey(Null))

\* the dashboard has rendered its filters over a frame queried from the
\* tables as they are
DashboardShown(s) ==
    /\ pc[s] = "done"
    /\ ss[s].op = "read"
    /\ ss[s].key = "load_data"
    /\ ss[s].resOk
    /\ ss[s].resVer = dbVer
    /\ ss[s].dash.run
    /\ ~ss[s].dash.stopped

NonNull(S) == {c \in S : ~IsNull(c)}

\* C11: the component options are exactly the non-null components of the
\* loaded rows of the selected equipment, the point options exactly the
\* non-null points of the loaded rows of the selected equipment and
\* component, and every row displayed has a value, the selected equipment and
\* component and a selected point; the loaded rows are the LIMIT most recent
\* rows of non-null value.
C11_FilterScoping ==
    \A s \in Sessions :
        DashboardShown(s) =>
            \E L \in LoadedRowSets(db) :
                LET d == ss[s].dash
                    OfEq == {i \in L : /\ ~IsNull(d.equipment_choice)
                                       /\ DataCell(db, i, "equipment_name")
                                             = d.equipment_choice}
                    OfComp == {i \in OfEq : /\ ~IsNull(d.component_choice)
                                            /\ DataCell(db, i, "component")
                                                  = d.component_choice}
                IN  /\ Range(d.component_options)
                          = NonNull({DataCell(db, i, "component") : i \in OfEq})
                    /\ Range(d.point_options)
                          = NonNull({DataCell(db, i, "point_measurement") :
                                        i \in OfComp})
                    /\ \A r \in Range(d.filtered_df) :
                          /\ ~IsNull(Value(r))
                          /\ EquipmentName(r) = d.equipment_choice
                          /\ Component(r) = d.component_choice
                          /\ PointMeasurement(r) \in d.point_choices

\* the cache holds the empty result of a failed query under key k
FailedEntry(k) == cache[k].has /\ ~cache[k].ok

\* C12: the empty table a failed query returns is stored in the cache; a later
\* call with the same arguments returns that empty result without querying;
\* and the entry stays until its TTL expires, a refresh button clears the
\* cache, or a successful upload clears it.
C12_FailedReadsMemoized ==
    [][ /\ \A s \in Sessions :
              (pc[s] = "store" /\ pc'[s] = "done"
                  /\ ~ss[s].resOk /\ ~ss[s].cleared)
                 => /\ FailedEntry(ss[s].key)'
                    /\ cache'[ss[s].key].rows = <<>>
        /\ \A s \in Sessions, k \in CacheKeys :
              (pc[s] = "idle" /\ ss'[s].op = "read" /\ ss'[s].key = k
                  /\ FailedEntry(k) /\ cache' = cache)
                 => /\ pc'[s] = "done"
                    /\ ss'[s].out = "hit"
                    /\ ss'[s].res = <<>>
                    /\ ~ss'[s].resOk
        /\ \A k \in CacheKeys :
              (FailedEntry(k) /\ cache'[k] # cache[k])
                 => /\ cache'[k] = NoEntry
                    /\ \/ \E s \in Sessions :        \* a successful upload
                             /\ pc[s] = "clear" /\ pc'[s] = "done"
                             /\ ss[s].wrote
                       \/ \E s \in Sessions :        \* a refresh button
                             /\ pc[s] # "query" /\ pc'[s] = "query"
                             /\ cache' = [j \in CacheKeys |-> NoEntry]
                       \/ /\ pc' = pc /\ ss' = ss    \* the TTL
                          /\ \A j \in CacheKeys \ {k} : cache'[j] = cache[j]
      ]_vars

\* a call returned the cached empty result of a failed query although a query
\* of the tables as they are would return rows
C12_Witness ==
    \E s \in Sessions :
        /\ pc[s] = "done"
        /\ ss[s].op = "read"
        /\ ss[s].out = "hit"
        /\ ~ss[s].resOk
        /\ ss[s].res = <<>>
        /\ \E r \in ReadResults(db, ss[s].key) : r # <<>>

=============================================================================
